---- MODULE Spec2Model ----
(***************************************************************************)
(* Gale-Shapley deferred acceptance (students / establishments), the        *)
(* stability verifier and the objects that hold them, as written in         *)
(* src/src/App.jsx.                                                         *)
(*                                                                          *)
(* JavaScript arrays are functions on 0..len-1, a JavaScript Map is a       *)
(* function on the set of its keys, a JavaScript Set is the sequence of its *)
(* members in insertion order (Array.from(set)[0] is its first member).     *)
(***************************************************************************)
EXTENDS Integers, Sequences, FiniteSets

\* Largest instance size n that is explored.
MaxN == 3

\* Every preference order of a size is explored while the size has at most
\* MaxOrders of them; a larger size is explored with three orders only.
MaxOrders == 6

\* Largest number of solve calls made on one engine object.
MaxCalls == 2

\* the lists of a malformed instance are all the lists of n ids when there are
\* at most this many, a few of them otherwise
MaxLists == 4

\* the analyzer is explored on up to this many participants per side
MaxAnalysisN == 4

\* and on at most this many analyses of one size
MaxAnalyses == 10000

VARIABLES
    n,                  \* this.n
    students,           \* this.students
    establishments,     \* this.establishments
    studentPrefs,       \* this.studentPrefs
    establishmentPrefs, \* this.establishmentPrefs
    proposalCounts,     \* this.proposalCounts
    pc,                 \* the method that is running, else "idle",
                        \* "returned" (from solve) or "verified"
    call,               \* the solve method called last, "none" before any
    engaged,            \* local Map engaged of the running solve
    free,               \* local Set free of the running solve
    proposals,          \* local Map proposals of the running solve
    result,             \* the object the last solve returned
    matching,           \* the argument of the last verifyStability
    stability,          \* the object the last verifyStability returned
    before,             \* the engine's fields when the last solve was called
    returned,           \* the results of the solve calls so far, oldest first
    deviated,           \* a proposer other than Array.from(free)[0] was chosen
    analysis            \* the report the last fullAnalysis returned

vars == <<n, students, establishments, studentPrefs, establishmentPrefs,
          proposalCounts, pc, call, engaged, free, proposals, result,
          matching, stability, before, returned, deviated, analysis>>

----------------------------------------------------------------------------
\* JavaScript built-ins used by the code

Ids(k) == 0..(k - 1)

EmptyMap == [x \in {} |-> 0]

\* Array.prototype.indexOf: the first index holding x, -1 when there is none
indexOf(arr, x) ==
    IF \E i \in DOMAIN arr : arr[i] = x
    THEN CHOOSE i \in DOMAIN arr :
            arr[i] = x /\ \A j \in DOMAIN arr : arr[j] = x => i <= j
    ELSE -1

\* new Set(array): the members in array order
SetOf(arr) == [i \in 1..Cardinality(DOMAIN arr) |-> arr[i - 1]]

\* a delete that removes nothing
SetDelete_Kept(set, x) == set

\* Set.prototype.delete
SetDelete(set, x) == SelectSeq(set, LAMBDA y : y # x)

\* an add that puts a new member first
SetAdd_First(set, x) ==
    IF \E i \in 1..Len(set) : set[i] = x THEN set ELSE <<x>> \o set

\* an add that loses the new member
SetAdd_Dropped(set, x) == set

\* Set.prototype.add: a new member goes last, a present one keeps its place
SetAdd(set, x) ==
    IF \E i \in 1..Len(set) : set[i] = x THEN set ELSE Append(set, x)

\* Map.prototype.has
MapHas(map, k) == k \in DOMAIN map

\* Map.prototype.set
MapSet(map, k, v) ==
    [x \in DOMAIN map \cup {k} |-> IF x = k THEN v ELSE map[x]]

\* new Array(k).fill(0)
ZeroArray(k) == [i \in Ids(k) |-> 0]

\* Array.from({ length: k }, (_, i) => i)
Range(k) == [i \in Ids(k) |-> i]

\* the orders shuffle can produce: the permutations of 0..k-1
Shuffles(k) ==
    {f \in [Ids(k) -> Ids(k)] : \A i, j \in Ids(k) : i # j => f[i] # f[j]}

\* three orders of 0..k-1: ascending, descending, and ascending from 1 round
\* to 0
FewOrders(k) ==
    {[i \in Ids(k) |-> i], [i \in Ids(k) |-> k - 1 - i],
     [i \in Ids(k) |-> (i + 1) % k]}

\* two orders of 0..k-1: ascending and descending
TwoOrders(k) == {[i \in Ids(k) |-> i], [i \in Ids(k) |-> k - 1 - i]}

\* the preference orders explored for size k
Orders(k) ==
    IF Cardinality(Shuffles(k)) <= MaxOrders THEN Shuffles(k) ELSE FewOrders(k)

----------------------------------------------------------------------------
\* StableMarriageAlgorithm

\* the fields no method assigns
instance == <<n, students, establishments, studentPrefs, establishmentPrefs>>

\* the locals of a solve
locals == <<engaged, free, proposals>>

\* generateRandomPreferences(n) followed by the constructor
Init ==
    /\ n \in 1..MaxN
    /\ students = Range(n)
    /\ establishments = Range(n)
    /\ studentPrefs \in [Ids(n) -> Orders(n)]
    /\ establishmentPrefs \in [Ids(n) -> Orders(n)]
    /\ proposalCounts = ZeroArray(n)
    /\ pc = "idle"
    /\ call = "none"
    /\ engaged = EmptyMap
    /\ free = <<>>
    /\ proposals = EmptyMap
    /\ result = [matching |-> EmptyMap, proposalCounts |-> EmptyMap]
    /\ matching = EmptyMap
    /\ stability = [stable |-> TRUE, blockingPairs |-> <<>>]
    /\ before = [n |-> n, students |-> students,
                 establishments |-> establishments,
                 studentPrefs |-> studentPrefs,
                 establishmentPrefs |-> establishmentPrefs,
                 proposalCounts |-> proposalCounts]
    /\ returned = <<>>
    /\ deviated = FALSE
    /\ analysis = EmptyMap

\* the fields of the engine object
fieldsNow ==
    [n |-> n, students |-> students, establishments |-> establishments,
     studentPrefs |-> studentPrefs, establishmentPrefs |-> establishmentPrefs,
     proposalCounts |-> proposalCounts]

\* cursors that start from this.proposalCounts instead of 0
enterSP_Resumed ==
    [engaged |-> EmptyMap,
     free |-> SetOf(students),
     proposals |->
        [s \in {students[i] : i \in DOMAIN students} |-> proposalCounts[s]],
     proposalCounts |-> proposalCounts]

\* the locals of solveStudentsPropose when its loop is entered
enterSP ==
    [engaged |-> EmptyMap,
     free |-> SetOf(students),
     proposals |-> [s \in {students[i] : i \in DOMAIN students} |-> 0],
     proposalCounts |-> proposalCounts]

\* the comparison turned round: newRank > currentRank
studentDisplaces_Reversed(establishment, student, currentStudent) ==
    LET currentRank ==
            indexOf(establishmentPrefs[establishment], currentStudent)
        newRank == indexOf(establishmentPrefs[establishment], student)
    IN  newRank > currentRank

\* no comparison: the newest proposer always displaces the holder
studentDisplaces_Always(establishment, student, currentStudent) == TRUE

\* newRank < currentRank in solveStudentsPropose
studentDisplaces(establishment, student, currentStudent) ==
    LET currentRank ==
            indexOf(establishmentPrefs[establishment], currentStudent)
        newRank == indexOf(establishmentPrefs[establishment], student)
    IN  newRank < currentRank

\* a cursor that skips a candidate
nextIndex_Skipping(proposalIndex) == proposalIndex + 2

\* proposalIndex + 1, the cursor after a proposal
nextIndex(proposalIndex) == proposalIndex + 1

\* the body of the loop of solveStudentsPropose once student is chosen
proposeSP(st, student) ==
    LET proposalIndex == st.proposals[student]
    IN  IF proposalIndex >= n
        THEN [st EXCEPT !.free = SetDelete(@, student)]
        ELSE
          LET establishment == studentPrefs[student][proposalIndex]
              counted ==
                [st EXCEPT !.proposalCounts[student] = @ + 1,
                           !.proposals =
                             MapSet(@, student, nextIndex(proposalIndex))]
          IN  IF ~MapHas(st.engaged, establishment)
              THEN [counted EXCEPT
                      !.engaged = MapSet(@, establishment, student),
                      !.free = SetDelete(@, student)]
              ELSE
                LET currentStudent == st.engaged[establishment]
                IN  IF studentDisplaces(establishment, student, currentStudent)
                    THEN [counted EXCEPT
                            !.engaged = MapSet(@, establishment, student),
                            !.free = SetAdd(SetDelete(@, student),
                                            currentStudent)]
                    ELSE counted

\* Array.from(free)[0]
firstOf(set) == set[1]

\* matching built from engaged by matching.set(student, establishment)
invertEngaged(map) ==
    [s \in {map[e] : e \in DOMAIN map} |->
        CHOOSE e \in DOMAIN map :
            map[e] = s /\ \A d \in DOMAIN map : map[d] = s => d <= e]

\* the object solveStudentsPropose returns from the locals st
returnSP(st) ==
    [matching |-> invertEngaged(st.engaged),
     proposalCounts |-> st.proposalCounts]

\* the locals of solveEstablishmentsPropose when its loop is entered
enterEP ==
    [engaged |-> EmptyMap,
     free |-> SetOf(establishments),
     proposals |->
        [e \in {establishments[i] : i \in DOMAIN establishments} |-> 0]]

\* the comparison turned round: newRank > currentRank
establishmentDisplaces_Reversed(student, establishment, currentEstablishment) ==
    LET currentRank == indexOf(studentPrefs[student], currentEstablishment)
        newRank == indexOf(studentPrefs[student], establishment)
    IN  newRank > currentRank

\* newRank < currentRank in solveEstablishmentsPropose
establishmentDisplaces(student, establishment, currentEstablishment) ==
    LET currentRank == indexOf(studentPrefs[student], currentEstablishment)
        newRank == indexOf(studentPrefs[student], establishment)
    IN  newRank < currentRank

\* the body of the loop of solveEstablishmentsPropose once establishment is
\* chosen
proposeEP(st, establishment) ==
    LET proposalIndex == st.proposals[establishment]
    IN  IF proposalIndex >= n
        THEN [st EXCEPT !.free = SetDelete(@, establishment)]
        ELSE
          LET student == establishmentPrefs[establishment][proposalIndex]
              counted ==
                [st EXCEPT
                   !.proposals =
                       MapSet(@, establishment, nextIndex(proposalIndex))]
          IN  IF ~MapHas(st.engaged, student)
              THEN [counted EXCEPT
                      !.engaged = MapSet(@, student, establishment),
                      !.free = SetDelete(@, establishment)]
              ELSE
                LET currentEstablishment == st.engaged[student]
                IN  IF establishmentDisplaces(student, establishment,
                                              currentEstablishment)
                    THEN [counted EXCEPT
                            !.engaged = MapSet(@, student, establishment),
                            !.free = SetAdd(SetDelete(@, establishment),
                                            currentEstablishment)]
                    ELSE counted

\* engaged inverted before it is returned, as solveStudentsPropose does
returnEP_Inverted(st) ==
    [matching |-> invertEngaged(st.engaged), proposalCounts |-> st.proposals]

\* the object solveEstablishmentsPropose returns from the locals st
returnEP(st) ==
    [matching |-> st.engaged, proposalCounts |-> st.proposals]

----------------------------------------------------------------------------
\* verifyStability

\* Array.from(matching.entries()).find(([_, e]) => e === preferredE)?.[0],
\* for a map that holds preferredE (exact when one key holds it)
keyOf(map, preferredE) ==
    CHOOSE k \in DOMAIN map :
        /\ map[k] = preferredE
        /\ \A j \in DOMAIN map : map[j] = preferredE => k <= j

\* the test with the comparison turned round
blocks_Reversed(map, s, preferredE) ==
    /\ \E k \in DOMAIN map : map[k] = preferredE
    /\ LET matchedS ==
               CHOOSE k \in DOMAIN map : map[k] = preferredE
           currentRankE == indexOf(establishmentPrefs[preferredE], matchedS)
           newRankE == indexOf(establishmentPrefs[preferredE], s)
       IN  newRankE > currentRankE

\* the test of the inner loop of verifyStability: s and preferredE block map
blocks(map, s, preferredE) ==
    /\ \E k \in DOMAIN map : map[k] = preferredE
    /\ LET matchedS == keyOf(map, preferredE)
           currentRankE == indexOf(establishmentPrefs[preferredE], matchedS)
           newRankE == indexOf(establishmentPrefs[preferredE], s)
       IN  newRankE < currentRankE

\* the pairs of student s pushed from the worst establishment to the best
blockingPairsOf_Backwards(map, s) ==
    LET currentRankS ==
            IF MapHas(map, s) THEN indexOf(studentPrefs[s], map[s]) ELSE -1
        prefRanks ==
            [i \in 1..(IF currentRankS > 0 THEN currentRankS ELSE 0) |-> i - 1]
        pushed ==
            SelectSeq(prefRanks,
                      LAMBDA prefRank :
                          blocks(map, s, studentPrefs[s][prefRank]))
    IN  [i \in 1..Len(pushed) |->
            [student |-> s,
             establishment |-> studentPrefs[s][pushed[Len(pushed) + 1 - i]]]]

\* the pairs one pass of the outer loop of verifyStability pushes for s
blockingPairsOf(map, s) ==
    LET currentRankS ==
            IF MapHas(map, s) THEN indexOf(studentPrefs[s], map[s]) ELSE -1
        prefRanks ==
            [i \in 1..(IF currentRankS > 0 THEN currentRankS ELSE 0) |-> i - 1]
        pushed ==
            SelectSeq(prefRanks,
                      LAMBDA prefRank :
                          blocks(map, s, studentPrefs[s][prefRank]))
    IN  [i \in 1..Len(pushed) |->
            [student |-> s, establishment |-> studentPrefs[s][pushed[i]]]]

RECURSIVE blockingPairsFrom(_, _)
\* the pairs the outer loop of verifyStability pushes from student s on
blockingPairsFrom(map, s) ==
    IF s < n
    THEN blockingPairsOf(map, s) \o blockingPairsFrom(map, s + 1)
    ELSE <<>>

\* verifyStability(matching)
verifyStability(map) ==
    LET blockingPairs == blockingPairsFrom(map, 0)
    IN  [stable |-> Len(blockingPairs) = 0, blockingPairs |-> blockingPairs]

\* the one-to-one matchings of n students and n establishments
Bijections == Shuffles(n)

----------------------------------------------------------------------------
\* One solve, a loop iteration at a time, then verifyStability as
\* runExperiment calls it; or verifyStability of any one-to-one matching.

CallSolveStudentsPropose ==
    /\ pc = "idle"
    /\ pc' = "solveStudentsPropose"
    /\ call' = "solveStudentsPropose"
    /\ engaged' = enterSP.engaged
    /\ free' = enterSP.free
    /\ proposals' = enterSP.proposals
    /\ before' = fieldsNow
    /\ UNCHANGED <<instance, proposalCounts, result, matching, stability,
                   returned, deviated, analysis>>

StepSP ==
    /\ pc = "solveStudentsPropose"
    /\ Len(free) > 0
    /\ \E st \in {proposeSP([engaged |-> engaged, free |-> free,
                            proposals |-> proposals,
                            proposalCounts |-> proposalCounts],
                           firstOf(free))} :
           /\ engaged' = st.engaged
           /\ free' = st.free
           /\ proposals' = st.proposals
           /\ proposalCounts' = st.proposalCounts
    /\ UNCHANGED <<instance, pc, call, result, matching, stability, before,
                   returned, deviated, analysis>>

ReturnSP ==
    /\ pc = "solveStudentsPropose"
    /\ Len(free) = 0
    /\ pc' = "returned"
    /\ result' = returnSP([engaged |-> engaged, free |-> free,
                           proposals |-> proposals,
                           proposalCounts |-> proposalCounts])
    /\ returned' = Append(returned, [call |-> call, result |-> result'])
    /\ UNCHANGED <<instance, proposalCounts, call, locals, matching,
                   stability, before, deviated, analysis>>

CallSolveEstablishmentsPropose ==
    /\ pc = "idle"
    /\ pc' = "solveEstablishmentsPropose"
    /\ call' = "solveEstablishmentsPropose"
    /\ engaged' = enterEP.engaged
    /\ free' = enterEP.free
    /\ proposals' = enterEP.proposals
    /\ before' = fieldsNow
    /\ UNCHANGED <<instance, proposalCounts, result, matching, stability,
                   returned, deviated, analysis>>

StepEP ==
    /\ pc = "solveEstablishmentsPropose"
    /\ Len(free) > 0
    /\ \E st \in {proposeEP([engaged |-> engaged, free |-> free,
                            proposals |-> proposals], firstOf(free))} :
           /\ engaged' = st.engaged
           /\ free' = st.free
           /\ proposals' = st.proposals
    /\ UNCHANGED <<instance, proposalCounts, pc, call, result, matching,
                   stability, before, returned, deviated, analysis>>

ReturnEP ==
    /\ pc = "solveEstablishmentsPropose"
    /\ Len(free) = 0
    /\ pc' = "returned"
    /\ result' = returnEP([engaged |-> engaged, free |-> free,
                           proposals |-> proposals])
    /\ returned' = Append(returned, [call |-> call, result |-> result'])
    /\ UNCHANGED <<instance, proposalCounts, call, locals, matching,
                   stability, before, deviated, analysis>>

\* algo.verifyStability(studentsPropose.matching) and
\* algo.verifyStability(establishmentsPropose.matching)
VerifyResult ==
    /\ pc = "returned"
    /\ pc' = "verified"
    /\ matching' = result.matching
    /\ stability' = verifyStability(result.matching)
    /\ UNCHANGED <<instance, proposalCounts, call, locals, result, before,
                   returned, deviated, analysis>>

\* verifyStability of a one-to-one matching that no solve produced
VerifyAny ==
    /\ pc = "idle"
    /\ pc' = "verified"
    /\ \E map \in Bijections :
          /\ matching' = map
          /\ stability' = verifyStability(map)
    /\ UNCHANGED <<instance, proposalCounts, call, locals, result, before,
                   returned, deviated, analysis>>

Next ==
    \/ CallSolveStudentsPropose
    \/ StepSP
    \/ ReturnSP
    \/ CallSolveEstablishmentsPropose
    \/ StepEP
    \/ ReturnEP
    \/ VerifyResult

Spec == Init /\ [][Next]_vars

\* the loops are run to their end: a solve is one synchronous call
LiveSpec == Spec /\ WF_vars(StepSP) /\ WF_vars(StepEP)

VerifyNext == VerifyAny

VerifySpec == Init /\ [][VerifyNext]_vars

\* the one-to-one maps that send some student to n, an id no establishment
\* has
OutsideMatchings ==
    {f \in [Ids(n) -> 0..n] :
        /\ \A i, j \in Ids(n) : i # j => f[i] # f[j]
        /\ \E i \in Ids(n) : f[i] = n}

\* verifyStability(matching) on such a map
VerifyOutside ==
    /\ pc = "idle"
    /\ pc' = "verified"
    /\ \E map \in OutsideMatchings :
          /\ matching' = map
          /\ stability' = verifyStability(map)
    /\ UNCHANGED <<instance, proposalCounts, call, locals, result, before,
                   returned, deviated, analysis>>

OutsideSpec == Init /\ [][VerifyOutside]_vars

----------------------------------------------------------------------------
\* Several solve calls on one engine object, each call one step.

RECURSIVE loopSP(_)
\* the while loop of solveStudentsPropose, run from the locals st to its end
loopSP(st) ==
    IF Len(st.free) > 0 THEN loopSP(proposeSP(st, firstOf(st.free))) ELSE st

RECURSIVE loopEP(_)
\* the while loop of solveEstablishmentsPropose, run from the locals st
loopEP(st) ==
    IF Len(st.free) > 0 THEN loopEP(proposeEP(st, firstOf(st.free))) ELSE st

SolveStudentsPropose ==
    /\ pc \in {"idle", "returned"}
    /\ Len(returned) < MaxCalls
    /\ \E st \in {loopSP(enterSP)} :
           /\ engaged' = st.engaged
           /\ free' = st.free
           /\ proposals' = st.proposals
           /\ proposalCounts' = st.proposalCounts
           /\ result' = returnSP(st)
    /\ pc' = "returned"
    /\ call' = "solveStudentsPropose"
    /\ before' = fieldsNow
    /\ returned' = Append(returned, [call |-> call', result |-> result'])
    /\ UNCHANGED <<instance, matching, stability, deviated, analysis>>

SolveEstablishmentsPropose ==
    /\ pc \in {"idle", "returned"}
    /\ Len(returned) < MaxCalls
    /\ \E st \in {loopEP(enterEP)} :
           /\ engaged' = st.engaged
           /\ free' = st.free
           /\ proposals' = st.proposals
           /\ result' = returnEP(st)
    /\ pc' = "returned"
    /\ call' = "solveEstablishmentsPropose"
    /\ before' = fieldsNow
    /\ returned' = Append(returned, [call |-> call', result |-> result'])
    /\ UNCHANGED <<instance, proposalCounts, matching, stability, deviated,
                   analysis>>

SessionNext ==
    \/ SolveStudentsPropose
    \/ SolveEstablishmentsPropose

SessionSpec == Init /\ [][SessionNext]_vars

----------------------------------------------------------------------------
\* The loops with the next proposer chosen freely among the free proposers
\* that have a candidate left, instead of Array.from(free)[0].

StepAnySP ==
    /\ pc = "solveStudentsPropose"
    /\ \E i \in 1..Len(free) :
          /\ proposals[free[i]] < n
          /\ \E st \in {proposeSP([engaged |-> engaged, free |-> free,
                                  proposals |-> proposals,
                                  proposalCounts |-> proposalCounts],
                                 free[i])} :
                 /\ engaged' = st.engaged
                 /\ free' = st.free
                 /\ proposals' = st.proposals
                 /\ deviated' = (deviated \/ free[i] # firstOf(free))
                 /\ proposalCounts' = st.proposalCounts
    /\ UNCHANGED <<instance, pc, call, result, matching, stability, before,
                   returned, analysis>>

StepAnyEP ==
    /\ pc = "solveEstablishmentsPropose"
    /\ \E i \in 1..Len(free) :
          /\ proposals[free[i]] < n
          /\ \E st \in {proposeEP([engaged |-> engaged, free |-> free,
                                  proposals |-> proposals], free[i])} :
                 /\ engaged' = st.engaged
                 /\ free' = st.free
                 /\ proposals' = st.proposals
                 /\ deviated' = (deviated \/ free[i] # firstOf(free))
    /\ UNCHANGED <<instance, proposalCounts, pc, call, result, matching,
                   stability, before, returned, analysis>>

AnyOrderNext ==
    \/ CallSolveStudentsPropose
    \/ StepAnySP
    \/ CallSolveEstablishmentsPropose
    \/ StepAnyEP

AnyOrderSpec == Init /\ [][AnyOrderNext]_vars

----------------------------------------------------------------------------
\* instances nothing validated: the constructor stores whatever lists it is
\* given

\* every list of k ids, repetitions and omissions included
Lists(k) == [Ids(k) -> Ids(k)]

\* the orders of FewOrders, a list that repeats its first id everywhere and
\* a list that repeats its first id once and omits the last id
FewLists(k) ==
    FewOrders(k) \cup {[i \in Ids(k) |-> 0],
                       [i \in Ids(k) |-> IF i = 0 THEN 0 ELSE i - 1]}

\* the lists explored for size k
AnyLists(k) ==
    IF Cardinality(Lists(k)) <= MaxLists THEN Lists(k) ELSE FewLists(k)

\* new StableMarriageAlgorithm(students, establishments, studentPrefs,
\* establishmentPrefs) with lists of n ids that need not be permutations
MalformedInit ==
    /\ n \in 1..MaxN
    /\ students = Range(n)
    /\ establishments = Range(n)
    /\ studentPrefs \in [Ids(n) -> AnyLists(n)]
    /\ establishmentPrefs \in [Ids(n) -> AnyLists(n)]
    /\ proposalCounts = ZeroArray(n)
    /\ pc = "idle"
    /\ call = "none"
    /\ engaged = EmptyMap
    /\ free = <<>>
    /\ proposals = EmptyMap
    /\ result = [matching |-> EmptyMap, proposalCounts |-> EmptyMap]
    /\ matching = EmptyMap
    /\ stability = [stable |-> TRUE, blockingPairs |-> <<>>]
    /\ before = fieldsNow
    /\ returned = <<>>
    /\ deviated = FALSE
    /\ analysis = EmptyMap

\* one solve on such an instance
MalformedNext ==
    \/ CallSolveStudentsPropose
    \/ StepSP
    \/ ReturnSP
    \/ CallSolveEstablishmentsPropose
    \/ StepEP
    \/ ReturnEP

MalformedSpec == MalformedInit /\ [][MalformedNext]_vars

----------------------------------------------------------------------------
\* JavaScript numbers: IEEE 754 binary64 with round to nearest, ties to even.
\* A finite number is a sign and a magnitude counted in units of 2^-60, held
\* as three limbs <<high, middle, low>> of 24 bits; every result is rounded
\* to 53 significant bits. The numbers the analyzer computes are 0 or lie
\* between 2^-7 and 2^12 in magnitude, where every binary64 value is a whole
\* number of units. The sign of zero is not kept (0 === -0).

\* the significant bits of a binary64
Significand == 53

\* the values of one limb
Base == 2^24

\* the high limb of 1
One == 2^12

\* a value outside that range: it has no model, evaluating it is an error
OutOfRange == CHOOSE x \in {} : TRUE

MagZero == <<0, 0, 0>>

MagLess(a, b) ==
    \/ a[1] < b[1]
    \/ a[1] = b[1] /\ a[2] < b[2]
    \/ a[1] = b[1] /\ a[2] = b[2] /\ a[3] < b[3]

\* carries go from the low limb up
Carried(high, middle, low) ==
    <<high + (middle + low \div Base) \div Base,
      (middle + low \div Base) % Base,
      low % Base>>

MagPlus(a, b) == Carried(a[1] + b[1], a[2] + b[2], a[3] + b[3])

\* a - b for a >= b
MagMinus(a, b) ==
    Carried(a[1] - b[1] - 1, a[2] - b[2] + Base - 1, a[3] - b[3] + Base)

\* a * k for a whole k below 128
MagTimes(a, k) == Carried(a[1] * k, a[2] * k, a[3] * k)

\* the quotient of a by a whole k in 1..127, cut to a whole number of units,
\* and whether anything was cut
DividedFrom(high, middle, low, k) ==
    [mag |-> <<high \div k,
               (middle + (high % k) * Base) \div k,
               (low + ((middle + (high % k) * Base) % k) * Base) \div k>>,
     inexact |-> (low + ((middle + (high % k) * Base) % k) * Base) % k # 0]

MagOver(a, k) == DividedFrom(a[1], a[2], a[3], k)

RECURSIVE BitLength(_)
\* the bits of a natural number
BitLength(x) == IF x = 0 THEN 0 ELSE 1 + BitLength(x \div 2)

MagBits(a) ==
    IF a[1] > 0 THEN 48 + BitLength(a[1])
    ELSE IF a[2] > 0 THEN 24 + BitLength(a[2])
    ELSE BitLength(a[3])

\* the low limb rounded at the bit of weight ulp: the dropped bits go, and
\* the kept part goes up by one when they were more than half of ulp, or
\* exactly half with the kept part odd
RoundedLow(low, ulp, inexact) ==
    IF \/ 2 * (low % ulp) > ulp
       \/ 2 * (low % ulp) = ulp /\ (inexact \/ (low \div ulp) % 2 = 1)
    THEN low - (low % ulp) + ulp
    ELSE low - (low % ulp)

\* a magnitude rounded to Significand bits; inexact says that the exact
\* value is a little more than a
Rounded(a, inexact) ==
    IF a[1] >= Base THEN OutOfRange
    ELSE IF MagBits(a) <= Significand
    THEN IF inexact THEN OutOfRange ELSE a
    ELSE Carried(a[1], a[2],
                 RoundedLow(a[3], 2^(MagBits(a) - Significand), inexact))

NaN == [kind |-> "NaN", neg |-> FALSE, mag |-> MagZero]

Infinity(neg) == [kind |-> "Infinity", neg |-> neg, mag |-> MagZero]

Num(neg, mag) ==
    [kind |-> "number", neg |-> neg /\ mag # MagZero, mag |-> mag]

\* the number of a whole i with |i| < 4096
FromInt(i) == Num(i < 0, <<(IF i < 0 THEN 0 - i ELSE i) * One, 0, 0>>)

IsZero(x) == x.kind = "number" /\ x.mag = MagZero

\* x is a whole number
IsWhole(x) ==
    x.kind = "number" /\ x.mag[1] % One = 0 /\ x.mag[2] = 0 /\ x.mag[3] = 0

\* |x| of a whole x
Whole(x) == x.mag[1] \div One

\* -x
Negated(x) == IF x.kind = "NaN" THEN x ELSE [x EXCEPT !.neg = ~@ /\ ~IsZero(x)]

\* x + y
Plus(x, y) ==
    IF x.kind = "NaN" \/ y.kind = "NaN" THEN NaN
    ELSE IF x.kind = "Infinity"
    THEN IF y.kind = "Infinity" /\ y.neg # x.neg THEN NaN ELSE x
    ELSE IF y.kind = "Infinity" THEN y
    ELSE IF x.neg = y.neg
    THEN Num(x.neg, Rounded(MagPlus(x.mag, y.mag), FALSE))
    ELSE IF MagLess(x.mag, y.mag)
    THEN Num(y.neg, Rounded(MagMinus(y.mag, x.mag), FALSE))
    ELSE Num(x.neg, Rounded(MagMinus(x.mag, y.mag), FALSE))

\* x - y
Minus(x, y) == Plus(x, Negated(y))

\* x * y where x or y is a whole number below 128 in magnitude
Times(x, y) ==
    IF x.kind = "NaN" \/ y.kind = "NaN" THEN NaN
    ELSE IF x.kind = "Infinity" \/ y.kind = "Infinity"
    THEN IF IsZero(x) \/ IsZero(y) THEN NaN ELSE Infinity(x.neg # y.neg)
    ELSE IF IsWhole(y)
    THEN Num(x.neg # y.neg, Rounded(MagTimes(x.mag, Whole(y)), FALSE))
    ELSE IF IsWhole(x)
    THEN Num(x.neg # y.neg, Rounded(MagTimes(y.mag, Whole(x)), FALSE))
    ELSE OutOfRange

\* the rounded quotient
Quotient(neg, q) == Num(neg, Rounded(q.mag, q.inexact))

\* x / y where y is a whole number below 128 in magnitude or an infinity
Over(x, y) ==
    IF x.kind = "NaN" \/ y.kind = "NaN" THEN NaN
    ELSE IF x.kind = "Infinity"
    THEN IF y.kind = "Infinity" THEN NaN ELSE Infinity(x.neg # y.neg)
    ELSE IF y.kind = "Infinity" THEN FromInt(0)
    ELSE IF IsZero(y)
    THEN IF IsZero(x) THEN NaN ELSE Infinity(x.neg # y.neg)
    ELSE IF IsWhole(y)
    THEN Quotient(x.neg # y.neg, MagOver(x.mag, Whole(y)))
    ELSE OutOfRange

\* x < y
Less(x, y) ==
    /\ x.kind # "NaN"
    /\ y.kind # "NaN"
    /\ x # y
    /\ IF x.kind = "Infinity" THEN x.neg
       ELSE IF y.kind = "Infinity" THEN ~y.neg
       ELSE IF x.neg # y.neg THEN x.neg
       ELSE IF x.neg THEN MagLess(y.mag, x.mag)
       ELSE MagLess(x.mag, y.mag)

\* x <= y
LessEq(x, y) == x.kind # "NaN" /\ y.kind # "NaN" /\ (x = y \/ Less(x, y))

\* Math.abs(x)
Abs(x) == [x EXCEPT !.neg = FALSE]

----------------------------------------------------------------------------
\* SatisfactionAnalyzer(matching, studentPrefs, establishmentPrefs)

\* array.length
lengthOf(arr) == Cardinality(DOMAIN arr)

\* prefs[i].indexOf(partner), partner being matching.get(i) for a student i
\* and the first key whose value is i for an establishment i; indexOf gives
\* -1 for an undefined partner
rankOfPartner(prefs, map, i, isStudent) ==
    IF isStudent
    THEN IF MapHas(map, i) THEN indexOf(prefs[i], map[i]) ELSE -1
    ELSE IF \E k \in DOMAIN map : map[k] = i
         THEN indexOf(prefs[i], keyOf(map, i))
         ELSE -1

RECURSIVE totalRank(_, _, _, _)
\* totalRank after the participants 0..i-1
totalRank(prefs, map, isStudent, i) ==
    IF i = 0 THEN 0
    ELSE totalRank(prefs, map, isStudent, i - 1)
         + rankOfPartner(prefs, map, i - 1, isStudent)

averageRank(prefs, map, isStudent) ==
    Over(FromInt(totalRank(prefs, map, isStudent, lengthOf(studentPrefs))),
         FromInt(lengthOf(studentPrefs)))

\* a test that loosens with every solve call made before
inTopK_Counted(rank, k) == rank < k + Len(returned)

\* a test that lets rank k in
inTopK_Inclusive(rank, k) == rank <= k

\* rank < k
inTopK(rank, k) == rank < k

RECURSIVE countTopK(_, _, _, _, _)
\* count after the participants 0..i-1
countTopK(prefs, map, k, isStudent, i) ==
    IF i = 0 THEN 0
    ELSE countTopK(prefs, map, k, isStudent, i - 1)
         + (IF inTopK(rankOfPartner(prefs, map, i - 1, isStudent), k)
            THEN 1 ELSE 0)

topKPercentage(prefs, map, k, isStudent) ==
    Times(Over(FromInt(countTopK(prefs, map, k, isStudent,
                                 lengthOf(studentPrefs))),
               FromInt(lengthOf(studentPrefs))),
          FromInt(100))

\* 100 * (1 - rank / (this.n - 1))
scoreOf(rank) ==
    Times(FromInt(100),
          Minus(FromInt(1),
                Over(FromInt(rank), FromInt(lengthOf(studentPrefs) - 1))))

RECURSIVE totalScore(_, _, _, _)
\* totalScore after the participants 0..i-1
totalScore(prefs, map, isStudent, i) ==
    IF i = 0 THEN FromInt(0)
    ELSE Plus(totalScore(prefs, map, isStudent, i - 1),
              scoreOf(rankOfPartner(prefs, map, i - 1, isStudent)))

satisfactionScore(prefs, map, isStudent) ==
    Over(totalScore(prefs, map, isStudent, lengthOf(studentPrefs)),
         FromInt(lengthOf(studentPrefs)))

\* a cost that leaves the establishment's rank out
pairCost_StudentOnly(map, s) == indexOf(studentPrefs[s], map[s])

\* studentRank + estabRank of student s and its establishment
pairCost(map, s) ==
    indexOf(studentPrefs[s], map[s])
    + indexOf(establishmentPrefs[map[s]], s)

RECURSIVE costUpTo(_, _)
\* cost after the students 0..s-1
costUpTo(map, s) ==
    IF s = 0 THEN 0 ELSE costUpTo(map, s - 1) + pairCost(map, s - 1)

egalitarianCost(map) == FromInt(costUpTo(map, lengthOf(studentPrefs)))

sexEquality(map) ==
    Abs(Minus(satisfactionScore(studentPrefs, map, TRUE),
              satisfactionScore(establishmentPrefs, map, FALSE)))

fullAnalysis(map) ==
    [students |->
        [avgRank |-> averageRank(studentPrefs, map, TRUE),
         top1 |-> topKPercentage(studentPrefs, map, 1, TRUE),
         top3 |-> topKPercentage(studentPrefs, map, 3, TRUE),
         satisfaction |-> satisfactionScore(studentPrefs, map, TRUE)],
     establishments |->
        [avgRank |-> averageRank(establishmentPrefs, map, FALSE),
         top1 |-> topKPercentage(establishmentPrefs, map, 1, FALSE),
         top3 |-> topKPercentage(establishmentPrefs, map, 3, FALSE),
         satisfaction |-> satisfactionScore(establishmentPrefs, map, FALSE)],
     overall |->
        [egalitarianCost |-> egalitarianCost(map),
         sexEquality |-> sexEquality(map)]]

\* runExperiment after verifyStability: analyzer.fullAnalysis(result.matching)
AnalyseResult ==
    /\ pc = "verified"
    /\ pc' = "analysed"
    /\ analysis' = fullAnalysis(matching)
    /\ UNCHANGED <<instance, proposalCounts, call, locals, result, matching,
                   stability, before, returned, deviated>>

\* fullAnalysis(matching) of any one-to-one matching
AnalyseAny ==
    /\ pc = "idle"
    /\ pc' = "analysed"
    /\ \E map \in Bijections :
          /\ matching' = map
          /\ analysis' = fullAnalysis(map)
    /\ UNCHANGED <<instance, proposalCounts, call, locals, result, stability,
                   before, returned, deviated>>

\* the analyses of every one-to-one matching on every instance of size k
\* with lists from orders
AnalysesOf(orders, k) ==
    Cardinality(orders)^(2 * k) * Cardinality(Shuffles(k))

\* the preference orders explored for the analysis of size k: the largest
\* of four families that keeps the analyses of that size within MaxAnalyses
AnalysisOrders(k) ==
    IF /\ Cardinality(Shuffles(k)) <= MaxOrders
       /\ AnalysesOf(Shuffles(k), k) <= MaxAnalyses
    THEN Shuffles(k)
    ELSE IF AnalysesOf(FewOrders(k), k) <= MaxAnalyses THEN FewOrders(k)
    ELSE IF AnalysesOf(TwoOrders(k), k) <= MaxAnalyses THEN TwoOrders(k)
    ELSE {Range(k)}

\* generateRandomPreferences(n) followed by the constructor, for the sizes
\* and orders of the analysis
AnalysisInit ==
    /\ n \in 1..MaxAnalysisN
    /\ students = Range(n)
    /\ establishments = Range(n)
    /\ studentPrefs \in [Ids(n) -> AnalysisOrders(n)]
    /\ establishmentPrefs \in [Ids(n) -> AnalysisOrders(n)]
    /\ proposalCounts = ZeroArray(n)
    /\ pc = "idle"
    /\ call = "none"
    /\ engaged = EmptyMap
    /\ free = <<>>
    /\ proposals = EmptyMap
    /\ result = [matching |-> EmptyMap, proposalCounts |-> EmptyMap]
    /\ matching = EmptyMap
    /\ stability = [stable |-> TRUE, blockingPairs |-> <<>>]
    /\ before = fieldsNow
    /\ returned = <<>>
    /\ deviated = FALSE
    /\ analysis = EmptyMap

\* one solve with its verification and its analysis, or the analysis of any
\* one-to-one matching
AnalysisNext ==
    \/ CallSolveStudentsPropose
    \/ StepSP
    \/ ReturnSP
    \/ CallSolveEstablishmentsPropose
    \/ StepEP
    \/ ReturnEP
    \/ VerifyResult
    \/ AnalyseResult
    \/ AnalyseAny

AnalysisSpec == AnalysisInit /\ [][AnalysisNext]_vars

\* solve calls on one object, then the verification and the analysis of the
\* last result
HistoryNext ==
    \/ SolveStudentsPropose
    \/ SolveEstablishmentsPropose
    \/ VerifyResult
    \/ AnalyseResult

HistorySpec == AnalysisInit /\ [][HistoryNext]_vars

----------------------------------------------------------------------------
\* Stable matchings, stated from the definition of a blocking pair

\* rank of x in the preference list prefs: 0 is the most preferred
Rank(prefs, x) == indexOf(prefs, x)

\* the student that the one-to-one matching M gives establishment e
StudentOf(M, e) == CHOOSE s \in DOMAIN M : M[s] = e

\* s and e are not matched by M and each prefers the other to its partner
IsBlockingPair(M, s, e) ==
    /\ M[s] # e
    /\ Rank(studentPrefs[s], e) < Rank(studentPrefs[s], M[s])
    /\ Rank(establishmentPrefs[e], s)
          < Rank(establishmentPrefs[e], StudentOf(M, e))

BlockingPairs(M) ==
    {pair \in [student : Ids(n), establishment : Ids(n)] :
        IsBlockingPair(M, pair.student, pair.establishment)}

StableMatchings ==
    {M \in Bijections : \A s, e \in Ids(n) : ~IsBlockingPair(M, s, e)}

InLoop == pc \in {"solveStudentsPropose", "solveEstablishmentsPropose"}

\* a proposer was rejected or displaced in the solve that ran last
SomeoneProposedTwice == \E p \in DOMAIN proposals : proposals[p] >= 2

SeqToSet(seq) == {seq[i] : i \in 1..Len(seq)}

----------------------------------------------------------------------------
\* C1: verifyStability of the matching that solveStudentsPropose returned,
\* and of the one that solveEstablishmentsPropose returned, answers stable
\* with an empty blockingPairs list.
C1_SolveIsVerifiedStable ==
    pc = "verified" =>
        /\ stability.stable = TRUE
        /\ stability.blockingPairs = <<>>

\* a verified result of establishments proposing in which a proposer was
\* turned down, on an instance that has unstable matchings too
C1_Witness ==
    /\ pc = "verified"
    /\ call = "solveEstablishmentsPropose"
    /\ SomeoneProposedTwice
    /\ StableMatchings # Bijections

\* C2: the matching solve returns has exactly the n students as keys and
\* exactly the n establishments as values, each once.
C2_ReturnsBijection ==
    pc = "returned" =>
        /\ DOMAIN result.matching = Ids(n)
        /\ {result.matching[s] : s \in DOMAIN result.matching} = Ids(n)
        /\ Cardinality(DOMAIN result.matching) = n

\* students proposed, one of them was turned down and proposed again
C2_Witness ==
    /\ pc = "returned"
    /\ call = "solveStudentsPropose"
    /\ SomeoneProposedTwice

\* C3: from the entry of the loop (all proposers free, all cursors 0, nobody
\* engaged) a state with an empty free set is reached.
C3_LoopTerminates ==
    (/\ InLoop
     /\ Len(free) = n
     /\ \A p \in DOMAIN proposals : proposals[p] = 0
     /\ DOMAIN engaged = {})
        ~> (InLoop /\ Len(free) = 0)

\* the loop has ended after a proposer was turned down
C3_Witness ==
    /\ InLoop
    /\ Len(free) = 0
    /\ SomeoneProposedTwice

\* C4: every proposer ranks the partner solve gives it at least as high as
\* its partner in any stable matching of the instance.
C4_ProposerOptimal ==
    pc = "returned" =>
        \A M \in StableMatchings :
            IF call = "solveStudentsPropose"
            THEN \A s \in Ids(n) :
                    Rank(studentPrefs[s], result.matching[s])
                        <= Rank(studentPrefs[s], M[s])
            ELSE \A e \in Ids(n) :
                    Rank(establishmentPrefs[e], StudentOf(result.matching, e))
                        <= Rank(establishmentPrefs[e], StudentOf(M, e))

\* students proposed and some student is strictly better off than in
\* another stable matching
C4_Witness ==
    /\ pc = "returned"
    /\ call = "solveStudentsPropose"
    /\ \E M \in StableMatchings : \E s \in Ids(n) :
          Rank(studentPrefs[s], result.matching[s])
              < Rank(studentPrefs[s], M[s])

\* C5: every receiver ranks the partner solve gives it no higher than its
\* partner in any stable matching of the instance.
C5_ReceiverPessimal ==
    pc = "returned" =>
        \A M \in StableMatchings :
            IF call = "solveStudentsPropose"
            THEN \A e \in Ids(n) :
                    Rank(establishmentPrefs[e], StudentOf(result.matching, e))
                        >= Rank(establishmentPrefs[e], StudentOf(M, e))
            ELSE \A s \in Ids(n) :
                    Rank(studentPrefs[s], result.matching[s])
                        >= Rank(studentPrefs[s], M[s])

\* establishments proposed and some student is strictly worse off than in
\* another stable matching
C5_Witness ==
    /\ pc = "returned"
    /\ call = "solveEstablishmentsPropose"
    /\ \E M \in StableMatchings : \E s \in Ids(n) :
          Rank(studentPrefs[s], result.matching[s])
              > Rank(studentPrefs[s], M[s])

\* C6: for any one-to-one matching, blockingPairs holds exactly the blocking
\* pairs of the matching, and stable is true iff there is none.
C6_VerifyFindsBlockingPairs ==
    pc = "verified" =>
        /\ SeqToSet(stability.blockingPairs) = BlockingPairs(matching)
        /\ stability.stable = (BlockingPairs(matching) = {})

\* a matching no solve produced, verified to have two blocking pairs or more
C6_Witness ==
    /\ pc = "verified"
    /\ call = "none"
    /\ Cardinality(BlockingPairs(matching)) >= 2
    /\ stability.stable = FALSE

\* the matching the code's own order of proposers ends with
CodeMatching ==
    IF call = "solveStudentsPropose"
    THEN returnSP(loopSP([enterSP EXCEPT !.proposalCounts =
                                           before.proposalCounts])).matching
    ELSE returnEP(loopEP(enterEP)).matching

\* no step is left to a loop that chooses its proposers freely
AnyOrderEnded ==
    /\ InLoop
    /\ \A i \in 1..Len(free) : proposals[free[i]] >= n

\* the matching solve would return from the present locals
MatchingNow ==
    IF call = "solveStudentsPropose"
    THEN returnSP([engaged |-> engaged, free |-> free,
                   proposals |-> proposals,
                   proposalCounts |-> proposalCounts]).matching
    ELSE returnEP([engaged |-> engaged, free |-> free,
                   proposals |-> proposals]).matching

\* C7: whatever free proposer is chosen at each step, a loop that has no step
\* left holds the matching that the code's order of proposers ends with.
C7_OrderInvariant == AnyOrderEnded => MatchingNow = CodeMatching

\* a loop that ended after choosing a proposer the code would not have chosen
C7_Witness ==
    /\ AnyOrderEnded
    /\ deviated
    /\ SomeoneProposedTwice

\* C8: two calls of the same solve method on one engine object return the
\* same matching.
C8_SameMatchingTwice ==
    \A i, j \in 1..Len(returned) :
        returned[i].call = returned[j].call =>
            returned[i].result.matching = returned[j].result.matching

\* solveStudentsPropose has returned twice on an object whose counts the
\* first call had raised
C8_Witness ==
    /\ Len(returned) >= 2
    /\ returned[1].call = "solveStudentsPropose"
    /\ returned[2].call = "solveStudentsPropose"
    /\ \E s \in Ids(n) : returned[1].result.proposalCounts[s] >= 2

\* C9 as stated: in both directions the returned matching maps every
\* proposer to the receiver that holds it.
C9_KeyedByProposer ==
    pc = "returned" =>
        \A r \in DOMAIN engaged :
            /\ MapHas(result.matching, engaged[r])
            /\ result.matching[engaged[r]] = r

\* C9 amended: in both directions the returned matching maps every student
\* to its establishment; it is keyed by the proposer when students propose
\* and by the receiver when establishments propose.
C9_KeyedByStudent ==
    pc = "returned" =>
        IF call = "solveStudentsPropose"
        THEN \A e \in DOMAIN engaged :
                /\ MapHas(result.matching, engaged[e])
                /\ result.matching[engaged[e]] = e
        ELSE \A s \in DOMAIN engaged :
                /\ MapHas(result.matching, s)
                /\ result.matching[s] = engaged[s]

\* establishments proposed and the returned matching read as
\* establishment -> student would pair some establishment wrongly
C9_Witness ==
    /\ pc = "returned"
    /\ call = "solveEstablishmentsPropose"
    /\ \E e \in Ids(n) :
          result.matching[e] # StudentOf(result.matching, e)

\* C10: when solve returns, every field of the engine object has the value
\* it had when solve was called.
C10_SolveLeavesFields ==
    pc = "returned" => fieldsNow = before

\* the proposers still in free
FreeProposers == SeqToSet(free)

\* C13: on an instance whose lists are permutations, in every state of the
\* loop each proposer in free has a cursor below n, so the branch that
\* drops an exhausted proposer is never taken.
C13_FreeCursorBelowN ==
    InLoop => \A p \in FreeProposers : proposals[p] < n

\* a free proposer has only its last candidate left
C13_Witness ==
    /\ InLoop
    /\ n >= 2
    /\ \E p \in FreeProposers : proposals[p] = n - 1

RECURSIVE SumUpTo(_, _)
\* f[0] + ... + f[k - 1]
SumUpTo(f, k) == IF k = 0 THEN 0 ELSE SumUpTo(f, k - 1) + f[k - 1]

\* the proposals made in the call: the sum of the cursors
TotalProposals == SumUpTo(proposals, n)

\* C20: when solve returns, the proposals made in the call, the sum of the
\* cursors, are at most n * n.
C20_AtMostNSquaredProposals ==
    pc = "returned" => TotalProposals <= n * n

\* a call that needed more than one proposal per proposer
C20_Witness ==
    /\ pc = "returned"
    /\ TotalProposals > n

\* some preference list is not a permutation of the n ids
Malformed ==
    \E p \in Ids(n) :
        \/ studentPrefs[p] \notin Shuffles(n)
        \/ establishmentPrefs[p] \notin Shuffles(n)

\* C11: on an instance with a preference list that repeats or omits a
\* participant, solve never returns a matching.
C11_MalformedNeverReturns ==
    Malformed => pc # "returned"

\* the proposers that hold a receiver
Holding == {engaged[r] : r \in DOMAIN engaged}

\* the proposers the loop dropped from free with nobody left to propose to
Exhausted ==
    {p \in Ids(n) \ Holding : MapHas(proposals, p) /\ proposals[p] >= n}

\* C14: a solve in which a free proposer was selected with its cursor at n
\* does not return a matching.
C14_ExhaustionNeverReturns ==
    pc = "returned" => Exhausted \ FreeProposers = {}

\* C12: verifyStability returns no verdict for a matching that maps some
\* student to an id outside 0..n-1.
C12_OutsideIdGetsNoVerdict ==
    pc = "verified" => \A s \in DOMAIN matching : matching[s] \in Ids(n)

\* n = 2, both students prefer establishment 0 to 1 and both establishments
\* prefer student 1 to 0, and students proposed
C15_Scenario ==
    /\ n = 2
    /\ studentPrefs = [s \in Ids(2) |-> Range(2)]
    /\ establishmentPrefs = [e \in Ids(2) |-> [i \in Ids(2) |-> 1 - i]]
    /\ call = "solveStudentsPropose"

\* C15: in that scenario solveStudentsPropose returns {0 -> 0, 1 -> 1},
\* verifyStability reports it stable with no blocking pair, and fullAnalysis
\* gives student avgRank 0, establishment avgRank 1, student satisfaction
\* 100, establishment satisfaction 0, egalitarianCost 1 and sexEquality 100.
C15_ScenarioAsStated ==
    C15_Scenario =>
        /\ pc \in {"returned", "verified", "analysed"} =>
              result.matching = Range(2)
        /\ pc \in {"verified", "analysed"} =>
              stability = [stable |-> TRUE, blockingPairs |-> <<>>]
        /\ pc = "analysed" =>
              /\ analysis.students.avgRank = FromInt(0)
              /\ analysis.establishments.avgRank = FromInt(1)
              /\ analysis.students.satisfaction = FromInt(100)
              /\ analysis.establishments.satisfaction = FromInt(0)
              /\ analysis.overall.egalitarianCost = FromInt(1)
              /\ analysis.overall.sexEquality = FromInt(100)

\* 0.5
Half == Over(FromInt(1), FromInt(2))

\* C15 amended: in that scenario solveStudentsPropose returns
\* {0 -> 1, 1 -> 0}, verifyStability reports it stable with no blocking
\* pair, and fullAnalysis gives avgRank 0.5 and satisfaction 50 on both
\* sides, egalitarianCost 2 and sexEquality 0.
C15_ScenarioAsComputed ==
    C15_Scenario =>
        /\ pc \in {"returned", "verified", "analysed"} =>
              result.matching = [s \in Ids(2) |-> 1 - s]
        /\ pc \in {"verified", "analysed"} =>
              stability = [stable |-> TRUE, blockingPairs |-> <<>>]
        /\ pc = "analysed" =>
              /\ analysis.students.avgRank = Half
              /\ analysis.establishments.avgRank = Half
              /\ analysis.students.satisfaction = FromInt(50)
              /\ analysis.establishments.satisfaction = FromInt(50)
              /\ analysis.overall.egalitarianCost = FromInt(2)
              /\ analysis.overall.sexEquality = FromInt(0)

\* the scenario has been solved, verified and analysed
C15_Witness == C15_Scenario /\ pc = "analysed"

\* C16: on the instance with one student and one establishment solve returns
\* {0 -> 0} and fullAnalysis reports avgRank 0 and satisfaction 100 on both
\* sides and egalitarianCost 0.
C16_TrivialInstanceSaturates ==
    (n = 1 /\ call # "none") =>
        /\ pc \in {"returned", "verified", "analysed"} =>
              result.matching = Range(1)
        /\ pc = "analysed" =>
              /\ analysis.students.avgRank = FromInt(0)
              /\ analysis.establishments.avgRank = FromInt(0)
              /\ analysis.students.satisfaction = FromInt(100)
              /\ analysis.establishments.satisfaction = FromInt(100)
              /\ analysis.overall.egalitarianCost = FromInt(0)

\* 0 <= x <= 100
InPercentRange(x) == LessEq(FromInt(0), x) /\ LessEq(x, FromInt(100))

\* C17: for every instance and every one-to-one matching, the two
\* satisfaction scores of fullAnalysis are numbers between 0 and 100.
C17_SatisfactionInRange ==
    pc = "analysed" =>
        /\ InPercentRange(analysis.students.satisfaction)
        /\ InPercentRange(analysis.establishments.satisfaction)

\* the rank student s gives its establishment in the analysed matching
StudentRank(s) == Rank(studentPrefs[s], matching[s])

\* the rank establishment e gives its student in the analysed matching
EstablishmentRank(e) == Rank(establishmentPrefs[e], StudentOf(matching, e))

\* how many students, how many establishments have a partner of rank below k
StudentsBelow(k) == Cardinality({s \in Ids(n) : StudentRank(s) < k})

EstablishmentsBelow(k) ==
    Cardinality({e \in Ids(n) : EstablishmentRank(e) < k})

\* 100 * count / n, evaluated from the left
PercentFromLeft(count) ==
    Over(Times(FromInt(100), FromInt(count)), FromInt(n))

\* (count / n) * 100
PercentOfFraction(count) ==
    Times(Over(FromInt(count), FromInt(n)), FromInt(100))

\* 2^-40
Tiny == Num(FALSE, <<0, 0, 2^20>>)

\* x and y differ by less than 2^-40
Close(x, y) == Less(Abs(Minus(x, y)), Tiny)

\* top1 <= top3 and both between 0 and 100
TopsOrdered(side) ==
    /\ LessEq(side.top1, side.top3)
    /\ InPercentRange(side.top1)
    /\ InPercentRange(side.top3)

\* C18: on each side top1 <= top3, both lie between 0 and 100, and the
\* percentage for k equals 100 * (participants of that side whose partner
\* has rank below k) / n.
C18_TopKIsHundredCountOverN ==
    pc = "analysed" =>
        /\ TopsOrdered(analysis.students)
        /\ TopsOrdered(analysis.establishments)
        /\ analysis.students.top1 = PercentFromLeft(StudentsBelow(1))
        /\ analysis.students.top3 = PercentFromLeft(StudentsBelow(3))
        /\ analysis.establishments.top1
              = PercentFromLeft(EstablishmentsBelow(1))
        /\ analysis.establishments.top3
              = PercentFromLeft(EstablishmentsBelow(3))

\* C18 amended: on each side top1 <= top3, both lie between 0 and 100, and
\* the percentage for k is (count / n) * 100 computed in that order in
\* binary64, count being the participants of that side whose partner has
\* rank below k; it is within 2^-40 of 100 * count / n.
C18_TopKIsCountOverNTimesHundred ==
    pc = "analysed" =>
        /\ TopsOrdered(analysis.students)
        /\ TopsOrdered(analysis.establishments)
        /\ analysis.students.top1 = PercentOfFraction(StudentsBelow(1))
        /\ analysis.students.top3 = PercentOfFraction(StudentsBelow(3))
        /\ analysis.establishments.top1
              = PercentOfFraction(EstablishmentsBelow(1))
        /\ analysis.establishments.top3
              = PercentOfFraction(EstablishmentsBelow(3))
        /\ Close(analysis.students.top1, PercentFromLeft(StudentsBelow(1)))
        /\ Close(analysis.students.top3, PercentFromLeft(StudentsBelow(3)))
        /\ Close(analysis.establishments.top1,
                 PercentFromLeft(EstablishmentsBelow(1)))
        /\ Close(analysis.establishments.top3,
                 PercentFromLeft(EstablishmentsBelow(3)))

\* some students have their first choice, more have one of their first
\* three, and some have neither
C18_Witness ==
    /\ pc = "analysed"
    /\ Less(FromInt(0), analysis.students.top1)
    /\ Less(analysis.students.top1, analysis.students.top3)
    /\ Less(analysis.students.top3, FromInt(100))

\* the ranks the two sides give their partners, summed over the pairs of
\* the analysed matching
SumOfRanks ==
    SumUpTo([s \in Ids(n) |-> StudentRank(s)], n)
    + SumUpTo([e \in Ids(n) |-> EstablishmentRank(e)], n)

\* n * (students.avgRank + establishments.avgRank)
CostFromAverages ==
    Times(FromInt(n),
          Plus(analysis.students.avgRank, analysis.establishments.avgRank))

Proposers == DOMAIN proposals

\* the step is an iteration of the loop of solve
LoopStep == InLoop /\ pc' = pc

\* the iteration makes a proposal: its proposer has a candidate left
Proposing == LoopStep /\ proposals[firstOf(free)] < n

\* C21: during one solve each cursor starts at 0, never decreases, never
\* exceeds n, goes up by exactly 1 on every proposal its proposer makes,
\* and is changed by no other step.
C21_CursorCountsProposals ==
    [][/\ (pc = "idle" /\ InLoop') =>
              \A p \in DOMAIN proposals' : proposals'[p] = 0
       /\ InLoop =>
              /\ DOMAIN proposals' = Proposers
              /\ \A p \in Proposers :
                    /\ proposals'[p] <= n
                    /\ proposals'[p] =
                          IF Proposing /\ p = firstOf(free)
                          THEN proposals[p] + 1 ELSE proposals[p]]_vars

\* a proposer that has proposed is free again, refused or displaced
C21_Witness ==
    /\ InLoop
    /\ \E p \in FreeProposers : proposals[p] >= 1

\* C22: at every loop boundary of a solve on a valid instance no proposer is
\* held by two receivers, and every proposer is either in free or held by a
\* receiver, never both.
C22_FreeAndHeldPartition ==
    InLoop =>
        /\ \A r1, r2 \in DOMAIN engaged :
              engaged[r1] = engaged[r2] => r1 = r2
        /\ FreeProposers \cap Holding = {}
        /\ FreeProposers \cup Holding = Proposers

\* some proposers are held and some are free
C22_Witness ==
    /\ InLoop
    /\ FreeProposers # {}
    /\ Cardinality(Holding) >= 2

\* the preference lists of the side that proposes and of the side that
\* receives in the call in progress
ProposerPrefs ==
    IF pc = "solveStudentsPropose" THEN studentPrefs ELSE establishmentPrefs

ReceiverPrefs ==
    IF pc = "solveStudentsPropose" THEN establishmentPrefs ELSE studentPrefs

\* the receiver the next proposal goes to
Target == ProposerPrefs[firstOf(free)][proposals[firstOf(free)]]

\* the next proposal goes to an engaged receiver that does not rank the
\* proposer strictly above its holder
Refusing ==
    /\ Proposing
    /\ MapHas(engaged, Target)
    /\ ~(Rank(ReceiverPrefs[Target], firstOf(free))
            < Rank(ReceiverPrefs[Target], engaged[Target]))

\* C23: during solve an engaged receiver stays engaged; its holder changes
\* only to the proposer of the step and only when the receiver ranks it
\* strictly above the holder, who then enters free; a refused proposal
\* changes neither the engagement map nor free.
C23_ReceiversOnlyImprove ==
    [][LoopStep =>
          /\ \A r \in DOMAIN engaged :
                /\ MapHas(engaged', r)
                /\ engaged'[r] # engaged[r] =>
                      /\ engaged'[r] = firstOf(free)
                      /\ Rank(ReceiverPrefs[r], engaged'[r])
                            < Rank(ReceiverPrefs[r], engaged[r])
                      /\ engaged[r] \in SeqToSet(free')
          /\ Refusing => (engaged' = engaged /\ free' = free)]_vars

\* a proposer that has been displaced waits at the end of free
C23_Witness ==
    /\ InLoop
    /\ Len(free) >= 2
    /\ proposals[free[Len(free)]] >= 1

\* C24: at every loop boundary of a solve on a valid instance, a proposer p
\* held by receiver r has r at index cursor[p] - 1 of its list, and every
\* receiver at a lower index than the last one p proposed to is engaged to
\* a proposer it ranks strictly above p.
C24_HeldByLastProposedTo ==
    InLoop =>
        /\ \A r \in DOMAIN engaged :
              /\ proposals[engaged[r]] >= 1
              /\ ProposerPrefs[engaged[r]][proposals[engaged[r]] - 1] = r
        /\ \A p \in Proposers : \A i \in Ids(n) :
              i < proposals[p] - 1 =>
                  /\ MapHas(engaged, ProposerPrefs[p][i])
                  /\ Rank(ReceiverPrefs[ProposerPrefs[p][i]],
                          engaged[ProposerPrefs[p][i]])
                        < Rank(ReceiverPrefs[ProposerPrefs[p][i]], p)

\* a held proposer that was turned away or displaced before
C24_Witness ==
    /\ InLoop
    /\ \E r \in DOMAIN engaged : proposals[engaged[r]] >= 2

\* the proposers in the order of their array
ProposersInOrder(method) ==
    SetOf(IF method = "solveStudentsPropose" THEN students
          ELSE establishments)

\* C25: the proposer of every iteration is the member of free that entered
\* it earliest: free starts in the order of the proposers' array, the
\* proposer of an iteration is its first member, a refused proposer keeps
\* its place, an accepted one leaves, and a displaced proposer enters behind
\* every member already there.
C25_FreeIsFirstInFirstOut ==
    [][/\ (pc = "idle" /\ InLoop') => free' = ProposersInOrder(pc')
       /\ Proposing =>
              /\ proposals'[firstOf(free)] = proposals[firstOf(free)] + 1
              /\ \/ Refusing /\ free' = free
                 \/ /\ ~Refusing
                    /\ ~MapHas(engaged, Target)
                    /\ free' = Tail(free)
                 \/ /\ ~Refusing
                    /\ MapHas(engaged, Target)
                    /\ engaged[Target] \notin SeqToSet(free)
                    /\ free' = Append(Tail(free), engaged[Target])]_vars

\* a displaced proposer waits behind one that has not proposed yet
C25_Witness ==
    /\ InLoop
    /\ Len(free) >= 2
    /\ proposals[firstOf(free)] = 0
    /\ proposals[free[Len(free)]] >= 1

\* the pair at place i of the list verifyStability returned
PairAt(i) == stability.blockingPairs[i]

\* the rank the pair's student gives the pair's establishment
PairRank(i) == Rank(studentPrefs[PairAt(i).student], PairAt(i).establishment)

\* C26: the blockingPairs of verifyStability are in ascending order of
\* student id and, for one student, of the establishment's rank in the
\* student's list, so no pair is listed twice; every listed establishment
\* is ranked strictly above the student's partner.
C26_BlockingPairsOrdered ==
    pc = "verified" =>
        /\ \A i, j \in 1..Len(stability.blockingPairs) :
              i < j =>
                  \/ PairAt(i).student < PairAt(j).student
                  \/ /\ PairAt(i).student = PairAt(j).student
                     /\ PairRank(i) < PairRank(j)
        /\ \A i \in 1..Len(stability.blockingPairs) :
              PairRank(i) < StudentRank(PairAt(i).student)

\* the list holds two pairs of one student and a pair of another
C26_Witness ==
    /\ pc = "verified"
    /\ \E i, j \in 1..Len(stability.blockingPairs) :
          /\ j > i + 1
          /\ PairAt(i).student = PairAt(i + 1).student
          /\ PairAt(j).student # PairAt(i).student

\* C28: the proposalCounts every call of solve returns, a second or later
\* call on the same object included, hold for each proposer the proposals
\* it made during that call, which is its cursor at the end of the call.
C28_CountsAreOfThisCall ==
    pc = "returned" =>
        \A p \in Proposers : result.proposalCounts[p] = proposals[p]

\* the matchings solveStudentsPropose and solveEstablishmentsPropose have
\* returned on this object
ReturnedBy(method) ==
    {returned[i].result.matching :
        i \in {j \in 1..Len(returned) : returned[j].call = method}}

\* C29: every student ranks its partner under solveStudentsPropose at least
\* as high as its partner under solveEstablishmentsPropose, and every
\* establishment ranks its partner under solveEstablishmentsPropose at
\* least as high as its partner under solveStudentsPropose.
C29_EachSideBestWhenProposing ==
    \A SP \in ReturnedBy("solveStudentsPropose") :
        \A EP \in ReturnedBy("solveEstablishmentsPropose") :
            /\ \A s \in Ids(n) :
                  Rank(studentPrefs[s], SP[s]) <= Rank(studentPrefs[s], EP[s])
            /\ \A e \in Ids(n) :
                  Rank(establishmentPrefs[e], StudentOf(EP, e))
                      <= Rank(establishmentPrefs[e], StudentOf(SP, e))

\* both methods have returned and some student and some establishment are
\* strictly better off when their own side proposes
C29_Witness ==
    \E SP \in ReturnedBy("solveStudentsPropose") :
        \E EP \in ReturnedBy("solveEstablishmentsPropose") :
            /\ \E s \in Ids(n) :
                  Rank(studentPrefs[s], SP[s]) < Rank(studentPrefs[s], EP[s])
            /\ \E e \in Ids(n) :
                  Rank(establishmentPrefs[e], StudentOf(EP, e))
                      < Rank(establishmentPrefs[e], StudentOf(SP, e))

\* the verdict as a function of the matching and the preference tables:
\* stable when no pair blocks, and the pairs that block
VerdictIsOf(verdict, M) ==
    /\ verdict.stable = (BlockingPairs(M) = {})
    /\ SeqToSet(verdict.blockingPairs) = BlockingPairs(M)

RECURSIVE ScoresUpTo(_, _)
\* the scores 100 * (1 - rank / (n - 1)) of ranks[0..k-1], added in order
ScoresUpTo(ranks, k) ==
    IF k = 0 THEN FromInt(0)
    ELSE Plus(ScoresUpTo(ranks, k - 1),
              Times(FromInt(100),
                    Minus(FromInt(1),
                          Over(FromInt(ranks[k - 1]), FromInt(n - 1)))))

\* one side's part of the report as a function of the ranks its
\* participants give their partners
SideOf(ranks) ==
    [avgRank |-> Over(FromInt(SumUpTo(ranks, n)), FromInt(n)),
     top1 |-> PercentOfFraction(Cardinality({i \in Ids(n) : ranks[i] < 1})),
     top3 |-> PercentOfFraction(Cardinality({i \in Ids(n) : ranks[i] < 3})),
     satisfaction |-> Over(ScoresUpTo(ranks, n), FromInt(n))]

\* the report made of the two sides' parts
ReportOfSides(studentSide, establishmentSide) ==
    [students |-> studentSide,
     establishments |-> establishmentSide,
     overall |->
        [egalitarianCost |-> FromInt(SumOfRanks),
         sexEquality |->
            Abs(Minus(studentSide.satisfaction,
                      establishmentSide.satisfaction))]]

\* the report as a function of the analysed matching and the preference
\* tables
ReportOfMatching ==
    ReportOfSides(SideOf([s \in Ids(n) |-> StudentRank(s)]),
                  SideOf([e \in Ids(n) |-> EstablishmentRank(e)]))

\* the step is a call of verifyStability or of fullAnalysis
Inspecting == pc' \in {"verified", "analysed"} /\ pc' # pc

\* C27: verifyStability and the analyzer's methods leave the matching, the
\* preference tables and the fields of the engine unchanged, and what they
\* return is a function of the matching and the preference tables, whatever
\* solve calls ran before.
C27_VerifyAndAnalysisArePure ==
    /\ [][Inspecting =>
              /\ fieldsNow' = fieldsNow
              /\ result' = result
              /\ returned' = returned
              /\ pc = "verified" => matching' = matching]_vars
    /\ [](pc = "verified" => VerdictIsOf(stability, matching))
    /\ [](pc = "analysed" => analysis = ReportOfMatching)

\* a result analysed after two solve calls that left their counts in the
\* engine
C27_Witness ==
    /\ pc = "analysed"
    /\ Len(returned) >= 2
    /\ proposalCounts # ZeroArray(n)

====
